---- MODULE Spec2Model ----
(***************************************************************************)
(* A model of visual-globe: the USGS earthquake proxy (an express handler  *)
(* for GET /earthquakes) and the EarthquakeGlobe React component (fetch,   *)
(* loading screen, client-side filters, time animation).                   *)
(*                                                                         *)
(* Units.  JavaScript numbers are modelled by integers:                    *)
(*   magnitude      tenths            (6.2  is 62)                         *)
(*   lng, lat       tenths of degree  (139.7 is 1397)                      *)
(*   size           thousandths       (0.93 is 930)                        *)
(*   time, updated  hours since the epoch (JavaScript: milliseconds)       *)
(* A JSON value that may be null or absent is a tuple of length 0 or 1:    *)
(* Null is <<>> and a present value v is <<v>>.  A string that the code    *)
(* inspects character by character (place, searchTerm) is a tuple of       *)
(* one-character strings; every other string is a TLA+ string.             *)
(***************************************************************************)
EXTENDS Integers, Sequences, FiniteSets, TLC

\* ------------------------------------------------------------------ bounds
\* The longest feature list the upstream answers with.
MaxFeatures == 2
\* The number of inbound requests the proxy serves in one run.
MaxRequests == 2
\* The number of client fetches that may be in flight at once.
MaxFetches == 1
\* The number of 5-second timeouts that may be pending at once.
MaxTimeouts == 2
\* The seconds the clock counts after the mount.
MaxClock == 6

\* ------------------------------------------------------- JavaScript values
Null == <<>>
Some(v) == <<v>>

\* ToNumber of a nullable number, as the relational operators apply it:
\* null compares as 0.
ToNumber(o) == IF o = Null THEN 0 ELSE o[1]

\* JavaScript truthiness of a string: only the empty string is falsy.
Truthy(s) == s # ""

HoursPerDay == 24

\* The calendar days the model distinguishes, as the strings
\* Date.prototype.toISOString().split('T')[0] prints and new Date(string)
\* parses (a date-only string is midnight UTC of that day).
DateTable ==
    [d \in {"2024-02-20", "2024-03-01", "2024-03-15", "2024-03-30", "2024-03-31"} |->
        CASE d = "2024-02-20" -> 19773
          [] d = "2024-03-01" -> 19783
          [] d = "2024-03-15" -> 19797
          [] d = "2024-03-30" -> 19812
          [] d = "2024-03-31" -> 19813]

\* new Date('YYYY-MM-DD').getTime()
ParseDate(s) == DateTable[s] * HoursPerDay

\* new Date(t).toISOString().split('T')[0]
ISODate(t) == CHOOSE s \in DOMAIN DateTable : DateTable[s] = t \div HoursPerDay

\* new Date(): the moment the code runs, 2024-03-31T13:00Z.
Now == 19813 * HoursPerDay + 13

\* d = new Date(); d.setDate(d.getDate() - n); the same time of day n days back.
DaysAgo(n) == Now - n * HoursPerDay

\* ---------------------------------------------------------- upstream data
Tokyo == <<"T", "o", "k", "y", "o", ",", " ", "J", "a", "p", "a", "n">>
LosAngeles == <<"L", "o", "s", " ", "A", "n", "g", "e", "l", "e", "s", ",", " ", "C", "A">>
Fiji == <<"F", "i", "j", "i">>
Iceland == <<"I", "c", "e", "l", "a", "n", "d">>

\* One upstream GeoJSON feature.
Feature(id, geometry, properties) ==
    [id |-> id, geometry |-> geometry, properties |-> properties]

Point(lng, lat, depth) == Some([coordinates |-> <<lng, lat, depth>>])

\* The spec's example: Tokyo, 6.2, sixteen days ago.
FTokyo ==
    Feature("us1", Point(1397, 357, 10),
        Some([mag |-> Some(62), place |-> Tokyo, time |-> Some(19797 * HoursPerDay + 7),
              title |-> "M 6.2 - Tokyo, Japan", url |-> "https://usgs/us1",
              tsunami |-> 1, type |-> "earthquake", status |-> "reviewed",
              updated |-> 19798 * HoursPerDay]))

\* Los Angeles, 5.9, today at 03:00Z (after midnight UTC, before Now).
FLosAngeles ==
    Feature("ci2", Point(-1182, 340, 12),
        Some([mag |-> Some(59), place |-> LosAngeles, time |-> Some(19813 * HoursPerDay + 3),
              title |-> "M 5.9 - Los Angeles, CA", url |-> "https://usgs/ci2",
              tsunami |-> 0, type |-> "quarry blast", status |-> "automatic",
              updated |-> 19813 * HoursPerDay + 4]))

\* Fiji, 7.1, yesterday at 20:00Z.
FFiji ==
    Feature("us3", Point(1780, -180, 550),
        Some([mag |-> Some(71), place |-> Fiji, time |-> Some(19812 * HoursPerDay + 20),
              title |-> "M 7.1 - Fiji", url |-> "https://usgs/us3",
              tsunami |-> 0, type |-> "earthquake", status |-> "deleted",
              updated |-> 19813 * HoursPerDay]))

\* A feature whose magnitude is null, forty days ago.
FNoMag ==
    Feature("us4", Point(-200, 640, 5),
        Some([mag |-> Null, place |-> Iceland, time |-> Some(19773 * HoursPerDay + 9),
              title |-> "M ? - Iceland", url |-> "https://usgs/us4",
              tsunami |-> 0, type |-> "explosion", status |-> "automatic",
              updated |-> 19773 * HoursPerDay + 10]))

\* Malformed features: no geometry, no properties, no time.
FNoGeometry == Feature("bad1", Null, FTokyo.properties)
FNoProperties == Feature("bad2", Point(0, 0, 0), Null)
FNoTime ==
    Feature("bad3", Point(100, 100, 1),
        Some([FLosAngeles.properties[1] EXCEPT !.time = Null]))

WellFormedFeatures == {FTokyo, FLosAngeles, FFiji, FNoMag}
MalformedFeatures == {FNoGeometry, FNoProperties, FNoTime}
FeaturePool == WellFormedFeatures \cup MalformedFeatures

\* The sequences over S of length at most n without repetition (the upstream
\* guarantees that ids are unique within one answer).
RECURSIVE ListsOver(_, _)
ListsOver(S, n) ==
    IF n = 0 THEN {<<>>}
    ELSE LET shorter == ListsOver(S, n - 1)
         IN  shorter \cup
             {Append(l, f) : l \in {m \in shorter : Len(m) = n - 1},
                             f \in S}

Distinct(l) == \A i, j \in 1..Len(l) : l[i] = l[j] => i = j

FeatureLists == {l \in ListsOver(FeaturePool, MaxFeatures) : Distinct(l)}

UpstreamMetadata ==
    [generated |-> Some(Now), url |-> Some("https://earthquake.usgs.gov/q"),
     title |-> Some("USGS Earthquakes"), count |-> Some(2)]

\* The parsed bodies the upstream may answer with: a feature collection, or an
\* object with no feature list (and no metadata).
UpstreamBodies ==
    {[features |-> Some(l), metadata |-> Some(UpstreamMetadata)] : l \in FeatureLists}
    \cup {[features |-> Null, metadata |-> Null]}

UpstreamStatuses == {200, 404, 503}

\* What await fetch(url) settles with: the promise rejects (neterr: the upstream
\* is unreachable) or resolves with a status.
UpstreamHeads ==
    [neterr : {TRUE}, status : {0}] \cup [neterr : {FALSE}, status : UpstreamStatuses]

\* What await response.json() settles with: the promise rejects (json = FALSE:
\* the body is not JSON) or resolves with the parsed body.
UpstreamJsons ==
    [json : {FALSE}, data : {[features |-> Null, metadata |-> Null]}]
    \cup [json : {TRUE}, data : UpstreamBodies]

\* ------------------------------------------------------------------ proxy
\* An inbound query string: each parameter absent (Null) or a string.
Queries ==
    [minmagnitude : {Null, Some("6")}, limit : {Null, Some("50")},
     format : {Null, Some("xml")}, starttime : {Null, Some("2024-03-15"), Some("")},
     endtime : {Null, Some("2024-03-30"), Some("")}]

\* Destructuring default: applies to an absent (undefined) parameter only.
DefaultAlways(o, d) == d

Default(o, d) == IF o = Null THEN d ELSE o[1]

\* if (param): the parameter is present and not the empty string.
Given(o) == o # Null /\ Truthy(o[1])

\* The URLSearchParams the handler builds, in append order.
BuildParams(query) ==
    << <<"format", Default(query.format, "geojson")>>,
       <<"minmagnitude", Default(query.minmagnitude, "4.5")>>,
       <<"limit", Default(query.limit, "1000")>>,
       <<"orderby", "time">>,
       <<"starttime", IF Given(query.starttime) THEN query.starttime[1]
                      ELSE ISODate(DaysAgo(30))>> >>
    \o (IF Given(query.endtime) THEN << <<"endtime", query.endtime[1]>> >> ELSE <<>>)

\* response.ok
ResponseOkAnyStatus(status) == 200 <= status

ResponseOk(status) == 200 <= status /\ status <= 299

\* new Date(t).toISOString(): the date and the hour of the day.
ToISOString(t) == <<ISODate(t), t % HoursPerDay>>

\* The error the map callback throws on this feature, "" when it throws none:
\* earthquake.geometry.coordinates and props.mag read a property of null, and
\* toISOString() throws on an invalid date.
FeatureError(earthquake) ==
    IF earthquake.geometry = Null
    THEN "Cannot read properties of null (reading 'coordinates')"
    ELSE IF earthquake.properties = Null
    THEN "Cannot read properties of null (reading 'mag')"
    ELSE IF earthquake.properties[1].time = Null
    THEN "Invalid time value"
    ELSE ""

\* The record the map callback returns for one feature.
ProcessFeatureLatLngSwapped(earthquake) ==
    LET coords == earthquake.geometry[1].coordinates
        props == earthquake.properties[1]
    IN  [id |-> earthquake.id,
         lat |-> coords[1],
         lng |-> coords[2],
         depth |-> coords[3],
         magnitude |-> props.mag,
         place |-> props.place,
         time |-> props.time,
         timeString |-> ToISOString(props.time[1]),
         title |-> props.title,
         url |-> props.url,
         tsunami |-> props.tsunami,
         type |-> props.type,
         status |-> props.status,
         updated |-> props.updated]

ProcessFeature(earthquake) ==
    LET coords == earthquake.geometry[1].coordinates
        props == earthquake.properties[1]
    IN  [id |-> earthquake.id,
         lat |-> coords[2],
         lng |-> coords[1],
         depth |-> coords[3],
         magnitude |-> props.mag,
         place |-> props.place,
         time |-> props.time,
         timeString |-> ToISOString(props.time[1]),
         title |-> props.title,
         url |-> props.url,
         tsunami |-> props.tsunami,
         type |-> props.type,
         status |-> props.status,
         updated |-> props.updated]

\* data.features ? data.features.map(...) : []
ProcessedData(data) ==
    IF data.features = Null THEN <<>>
    ELSE [i \in 1..Len(data.features[1]) |-> ProcessFeature(data.features[1][i])]

\* The first error thrown while mapping the features, "" when the map completes.
FirstFeatureError(features) ==
    IF \A i \in 1..Len(features) : FeatureError(features[i]) = ""
    THEN ""
    ELSE LET i == CHOOSE k \in 1..Len(features) :
                      /\ FeatureError(features[k]) # ""
                      /\ \A j \in 1..(k - 1) : FeatureError(features[j]) = ""
         IN  FeatureError(features[i])

\* The error thrown while computing processedData, "" when there is none: the
\* ternary on data.features guards the map.
MapErrorUnguarded(data) ==
    IF data.features = Null
    THEN "Cannot read properties of undefined (reading 'map')"
    ELSE FirstFeatureError(data.features[1])

MapError(data) ==
    IF data.features = Null THEN "" ELSE FirstFeatureError(data.features[1])

\* data.metadata?.field
MetadataField(data, field) ==
    IF data.metadata = Null THEN Null ELSE data.metadata[1][field]

\* res.json({ count, earthquakes, metadata })
SuccessResponse(data) ==
    [status |-> 200,
     body |-> [count |-> Len(ProcessedData(data)),
               earthquakes |-> ProcessedData(data),
               metadata |-> [generated |-> MetadataField(data, "generated"),
                             url |-> MetadataField(data, "url"),
                             title |-> MetadataField(data, "title"),
                             count |-> MetadataField(data, "count")]]]

\* res.status(500).json({ error, details })
ErrorResponse(message) ==
    [status |-> 500,
     body |-> [error |-> "Failed to fetch earthquake data", details |-> message]]

\* One inbound request: where its handler stands, the number of upstream GETs
\* it has issued and the statuses of the responses it has sent.
NewRequest == [pc |-> "idle", gets |-> 0, sent |-> <<>>]

\* A step of the handler: where it stands afterwards, the upstream GETs it
\* issued (their URLs) and the responses it sent.
HandlerStep(pc, gets, out) == [pc |-> pc, gets |-> gets, out |-> out]

\* The catch block: one 500 response, and the handler returns.
CatchBlockRetry(message) == HandlerStep("fetch", <<message>>, <<>>)

CatchBlock(message) == HandlerStep("done", <<>>, <<ErrorResponse(message)>>)

\* The handler from its entry to await fetch(url).
StartHandler(query) == HandlerStep("fetch", <<BuildParams(query)>>, <<>>)

\* The handler from the settling of fetch(url) to await response.json().
AfterFetch(head) ==
    IF head.neterr
    THEN CatchBlock("request to earthquake.usgs.gov failed")
    ELSE IF ~ResponseOk(head.status)
    THEN CatchBlock("USGS API responded with status " \o ToString(head.status))
    ELSE HandlerStep("json", <<>>, <<>>)

\* A handler that skips the features its map cannot process and answers with
\* the records of the others.
AfterJsonSkipping(body) ==
    IF ~body.json
    THEN CatchBlock("invalid json response body")
    ELSE IF body.data.features = Null
    THEN HandlerStep("done", <<>>, <<SuccessResponse(body.data)>>)
    ELSE LET kept == SelectSeq(body.data.features[1], LAMBDA f : FeatureError(f) = "")
         IN  HandlerStep("done", <<>>,
                 <<SuccessResponse([body.data EXCEPT !.features = Some(kept)])>>)

\* The handler from the settling of response.json() to its end.
AfterJson(body) ==
    IF ~body.json
    THEN CatchBlock("invalid json response body")
    ELSE IF MapError(body.data) # ""
    THEN CatchBlock(MapError(body.data))
    ELSE HandlerStep("done", <<>>, <<SuccessResponse(body.data)>>)

\* ------------------------------------------------- client: pure functions
\* String.prototype.toLowerCase on the letters the model uses.
UpperCase == <<"A", "C", "F", "I", "J", "L", "N", "P", "T">>
LowerCase == <<"a", "c", "f", "i", "j", "l", "n", "p", "t">>

LowerChar(c) ==
    IF \E i \in 1..Len(UpperCase) : UpperCase[i] = c
    THEN LowerCase[CHOOSE i \in 1..Len(UpperCase) : UpperCase[i] = c]
    ELSE c

toLowerCase(text) == [i \in 1..Len(text) |-> LowerChar(text[i])]

\* String.prototype.includes
includes(text, sub) ==
    \E off \in 0..(Len(text) - Len(sub)) :
        \A i \in 1..Len(sub) : text[off + i] = sub[i]

\* Magnitude to color mapping.
getMagnitudeColorExclusive(magnitude) ==
    IF ToNumber(magnitude) > 70 THEN "#ff0000"
    ELSE IF ToNumber(magnitude) > 60 THEN "#ff4500"
    ELSE IF ToNumber(magnitude) > 50 THEN "#ff8c00"
    ELSE IF ToNumber(magnitude) > 40 THEN "#ffd700"
    ELSE "#90ee90"

getMagnitudeColor(magnitude) ==
    IF ToNumber(magnitude) >= 70 THEN "#ff0000"
    ELSE IF ToNumber(magnitude) >= 60 THEN "#ff4500"
    ELSE IF ToNumber(magnitude) >= 50 THEN "#ff8c00"
    ELSE IF ToNumber(magnitude) >= 40 THEN "#ffd700"
    ELSE "#90ee90"

\* Magnitude to size mapping: Math.max(0.15, magnitude * 0.15), in thousandths.
getMagnitudeSize(magnitude) ==
    IF ToNumber(magnitude) * 15 > 150 THEN ToNumber(magnitude) * 15 ELSE 150

\* The record fetchEarthquakes builds from one record of the response:
\* { ...eq, color, size, label }; the label is kept as its interpolated parts.
Enrich(eq) ==
    [color |-> getMagnitudeColor(eq.magnitude),
     size |-> getMagnitudeSize(eq.magnitude),
     label |-> <<eq.place, eq.magnitude, eq.depth, eq.time>>] @@ eq

\* Check if earthquake is in selected region.
isInRegionNoLatitude(earthquake, region) ==
    IF region = "all" THEN TRUE
    ELSE LET lng == earthquake.lng
         IN  CASE region = "pacific-ring" ->
                      (lng >= 1200 /\ lng <= 1800) \/ (lng >= -1800 /\ lng <= -1000)
               [] region = "americas" -> lng >= -1800 /\ lng <= -300
               [] region = "asia-pacific" -> lng >= 600 /\ lng <= 1800
               [] region = "europe-africa" -> lng >= -300 /\ lng <= 600
               [] region = "atlantic" -> lng >= -600 /\ lng <= 200
               [] OTHER -> TRUE

\* isInRegion with a 'pacific-ring' that keeps only its latitude-bounded
\* sub-condition.
isInRegionRingInLatitudeBand(earthquake, region) ==
    IF region = "all" THEN TRUE
    ELSE LET lat == earthquake.lat
             lng == earthquake.lng
         IN  CASE region = "pacific-ring" ->
                      lat >= -600 /\ lat <= 700 /\ (lng >= 1200 \/ lng <= -1000)
               [] region = "americas" -> lng >= -1800 /\ lng <= -300
               [] region = "asia-pacific" ->
                      lng >= 600 /\ lng <= 1800 /\ lat >= -500 /\ lat <= 700
               [] region = "europe-africa" -> lng >= -300 /\ lng <= 600
               [] region = "atlantic" ->
                      lng >= -600 /\ lng <= 200 /\ lat >= -600 /\ lat <= 700
               [] OTHER -> TRUE

isInRegion(earthquake, region) ==
    IF region = "all" THEN TRUE
    ELSE LET lat == earthquake.lat
             lng == earthquake.lng
         IN  CASE region = "pacific-ring" ->
                      \/ (lng >= 1200 /\ lng <= 1800)
                      \/ (lng >= -1800 /\ lng <= -1000)
                      \/ (lat >= -600 /\ lat <= 700 /\ (lng >= 1200 \/ lng <= -1000))
               [] region = "americas" -> lng >= -1800 /\ lng <= -300
               [] region = "asia-pacific" ->
                      lng >= 600 /\ lng <= 1800 /\ lat >= -500 /\ lat <= 700
               [] region = "europe-africa" -> lng >= -300 /\ lng <= 600
               [] region = "atlantic" ->
                      lng >= -600 /\ lng <= 200 /\ lat >= -600 /\ lat <= 700
               [] OTHER -> TRUE

Regions == {"all", "pacific-ring", "americas", "asia-pacific", "europe-africa", "atlantic"}

\* The callback of earthquakes.filter in applyFilters.
PassesFiltersNoLowerCase(eq, f) ==
    /\ ~(ToNumber(eq.magnitude) < f.minMagnitude \/ ToNumber(eq.magnitude) > f.maxMagnitude)
    /\ ~(Truthy(f.startDate) /\ ToNumber(eq.time) < ParseDate(f.startDate))
    /\ ~(Truthy(f.endDate) /\ ToNumber(eq.time) > ParseDate(f.endDate))
    /\ isInRegion(eq, f.region)
    /\ ~(f.searchTerm # <<>> /\ ~includes(toLowerCase(eq.place), f.searchTerm))

PassesFilters(eq, f) ==
    /\ ~(ToNumber(eq.magnitude) < f.minMagnitude \/ ToNumber(eq.magnitude) > f.maxMagnitude)
    /\ ~(Truthy(f.startDate) /\ ToNumber(eq.time) < ParseDate(f.startDate))
    /\ ~(Truthy(f.endDate) /\ ToNumber(eq.time) > ParseDate(f.endDate))
    /\ isInRegion(eq, f.region)
    /\ ~(f.searchTerm # <<>> /\ ~includes(toLowerCase(eq.place), toLowerCase(f.searchTerm)))

\* earthquakes.filter(...): the list applyFilters hands to setFilteredEarthquakes.
applyFilters(list, f) == SelectSeq(list, LAMBDA eq : PassesFilters(eq, f))

\* The useEffect on [earthquakes, filters]: the filtered list after it has run.
FilterEffect(list, f, filtered) ==
    IF Len(list) > 0 THEN applyFilters(list, f) ELSE filtered

\* getDefaultDateRange
getDefaultDateRange == [start |-> ISODate(DaysAgo(30)), end |-> ISODate(Now)]

\* useState initial value of filters.
InitialFilters ==
    [minMagnitude |-> 45, maxMagnitude |-> 100, startDate |-> "", endDate |-> "",
     region |-> "all", searchTerm |-> <<>>]

\* setFilters(prev => ({ ...prev, [key]: value }))
SetFilter(prev, key, value) == [prev EXCEPT ![key] = value]

\* The object the 'Reset All' button sets.
ResetFilters ==
    [minMagnitude |-> 45, maxMagnitude |-> 100,
     startDate |-> getDefaultDateRange.start, endDate |-> getDefaultDateRange.end,
     region |-> "all", searchTerm |-> <<>>]

\* What the client's fetch('/earthquakes...') settles with: the promise rejects
\* (reject), or resolves with a status and a body that is JSON or not.  The
\* answers are those the proxy sends, a body that is not JSON, and a JSON body
\* of another shape (no earthquakes array).
ProxyResponses ==
    {AfterFetch(h).out[1] : h \in {g \in UpstreamHeads : AfterFetch(g).out # <<>>}}
    \cup {AfterJson(b).out[1] : b \in UpstreamJsons}

ClientOutcomes ==
    {[reject |-> TRUE, status |-> 0, json |-> FALSE, data |-> [message |-> "none"]]}
    \cup {[reject |-> FALSE, status |-> r.status, json |-> TRUE, data |-> r.body] :
             r \in ProxyResponses}
    \cup {[reject |-> FALSE, status |-> 200, json |-> FALSE, data |-> [message |-> "none"]],
          [reject |-> FALSE, status |-> 200, json |-> TRUE, data |-> [message |-> "hello"]]}

\* What one run of fetchEarthquakes does once its fetch has settled: the state
\* setters it calls, as the new values (Null: the setter is not called).
FetchResult(earthquakes, error, dataLoaded) ==
    [earthquakes |-> earthquakes, error |-> error, dataLoaded |-> dataLoaded]

\* The message of the branch that finds no earthquakes array in the answer.
InvalidData == "Invalid data received from server"

fetchEarthquakesCatchKeepsLoading(o) ==
    IF o.reject THEN FetchResult(Null, Some("Failed to fetch earthquake data: Failed to fetch"), Null)
    ELSE IF ~ResponseOk(o.status)
    THEN FetchResult(Null, Some("Failed to fetch earthquake data: HTTP error! status: "
                                  \o ToString(o.status)), Null)
    ELSE IF ~o.json
    THEN FetchResult(Null, Some("Failed to fetch earthquake data: Unexpected token"), Null)
    ELSE IF "earthquakes" \in DOMAIN o.data
    THEN FetchResult(Some([i \in 1..Len(o.data.earthquakes) |-> Enrich(o.data.earthquakes[i])]),
                     Null, Some(TRUE))
    ELSE FetchResult(Null, Some(InvalidData), Null)

fetchEarthquakes(o) ==
    IF o.reject
    THEN FetchResult(Null, Some("Failed to fetch earthquake data: Failed to fetch"), Some(TRUE))
    ELSE IF ~ResponseOk(o.status)
    THEN FetchResult(Null, Some("Failed to fetch earthquake data: HTTP error! status: "
                                  \o ToString(o.status)), Some(TRUE))
    ELSE IF ~o.json
    THEN FetchResult(Null, Some("Failed to fetch earthquake data: Unexpected token"),
                     Some(TRUE))
    ELSE IF "earthquakes" \in DOMAIN o.data
    THEN FetchResult(Some([i \in 1..Len(o.data.earthquakes) |-> Enrich(o.data.earthquakes[i])]),
                     Null, Some(TRUE))
    ELSE FetchResult(Null, Some(InvalidData), Null)

\* Get earthquakes to display (all or up to animation index): Array slice(0, n).
displayEarthquakesFor(animating, filtered, index) ==
    IF animating
    THEN SubSeq(filtered, 1, IF index < Len(filtered) THEN index ELSE Len(filtered))
    ELSE filtered

RequestIds == 1..MaxRequests

VARIABLES
    requests,   \* proxy: the handler state of every inbound request
    wire,       \* proxy: the latest handler step, with what it received and sent
    lifecycle,  \* client: "init" (rendered, effects not yet run), "mounted", "unmounted"
    earthquakes,            \* useState([])
    filteredEarthquakes,    \* useState([])
    filters,                \* useState({...})
    loading,                \* useState(true)
    loadingProgress,        \* useState(0)
    error,                  \* useState(null)
    dataLoaded,             \* useState(false)
    isAnimating,            \* useState(false)
    animationIndex,         \* useState(0)
    animationRef,           \* the interval animationRef.current names
    leakedIntervals,        \* animation intervals no reference names any more
    fetches,                \* the number of fetches in flight
    progressInterval,       \* the progress-bar intervals that are live
    minTimeouts,            \* the pending 5000 ms timeouts, in firing order
    doneTimeouts,           \* the pending 300 ms timeouts, in firing order
    polling,                \* a checkCompletion chain re-arms itself every 100 ms
    clock                   \* whole seconds elapsed since the mount

proxyVars == <<requests, wire>>
dataVars == <<earthquakes, filteredEarthquakes, filters>>
loadVars == <<loading, loadingProgress, error, dataLoaded>>
animVars == <<isAnimating, animationIndex, animationRef, leakedIntervals>>
timerVars == <<fetches, progressInterval, minTimeouts, doneTimeouts, polling, clock>>
clientVars == <<lifecycle, dataVars, loadVars, animVars, timerVars>>
vars == <<proxyVars, clientVars>>

NoHead == [neterr |-> FALSE, status |-> 0]
NoJson == [json |-> FALSE, data |-> [features |-> Null, metadata |-> Null]]

NoQuery ==
    [minmagnitude |-> Null, limit |-> Null, format |-> Null, starttime |-> Null,
     endtime |-> Null]

\* The record of one handler step of request r: the inbound query it read, the
\* upstream URL it built, what settled, and what it issued and sent.
Wire(kind, r, query, url, head, body, step) ==
    [kind |-> kind, r |-> r, query |-> query, url |-> url, head |-> head,
     body |-> body, gets |-> step.gets, out |-> step.out]

\* The request after a handler step.
Advance(req, step) ==
    [pc |-> step.pc,
     gets |-> req.gets + Len(step.gets),
     sent |-> req.sent \o [i \in 1..Len(step.out) |-> step.out[i].status]]

ProxyInit ==
    /\ requests = [r \in RequestIds |-> NewRequest]
    /\ wire = Wire("none", 0, NoQuery, <<>>, NoHead, NoJson, HandlerStep("idle", <<>>, <<>>))

\* app.get('/earthquakes', ...) is entered for a new inbound request; requests
\* are numbered in the order they arrive.
Receive(r, query) ==
    /\ requests[r].pc = "idle"
    /\ \A q \in RequestIds : q < r => requests[q].pc # "idle"
    /\ LET step == StartHandler(query)
       IN  /\ requests' = [requests EXCEPT ![r] = Advance(@, step)]
           /\ wire' = Wire("get", r, query, BuildParams(query), NoHead, NoJson, step)
    /\ UNCHANGED clientVars

\* await fetch(url) settles.
FetchSettles(r, head) ==
    /\ requests[r].pc = "fetch"
    /\ LET step == AfterFetch(head)
       IN  /\ requests' = [requests EXCEPT ![r] = Advance(@, step)]
           /\ wire' = Wire("head", r, NoQuery, <<>>, head, NoJson, step)
    /\ UNCHANGED clientVars

\* await response.json() settles.
JsonSettles(r, body) ==
    /\ requests[r].pc = "json"
    /\ LET step == AfterJson(body)
       IN  /\ requests' = [requests EXCEPT ![r] = Advance(@, step)]
           /\ wire' = Wire("body", r, NoQuery, <<>>, NoHead, body, step)
    /\ UNCHANGED clientVars

ProxyNext ==
    \/ \E r \in RequestIds, query \in Queries : Receive(r, query)
    \/ \E r \in RequestIds, head \in UpstreamHeads : FetchSettles(r, head)
    \/ \E r \in RequestIds, body \in UpstreamJsons : JsonSettles(r, body)

\* ----------------------------------------------------------------- client
\* The component after its first render: every useState at its initial value,
\* no effect run yet, no timer, no fetch.
ClientInit ==
    /\ lifecycle = "init"
    /\ earthquakes = <<>>
    /\ filteredEarthquakes = <<>>
    /\ filters = InitialFilters
    /\ loading = TRUE
    /\ loadingProgress = 0
    /\ error = Null
    /\ dataLoaded = FALSE
    /\ isAnimating = FALSE
    /\ animationIndex = 0
    /\ animationRef = [len |-> 0, live |-> FALSE]
    /\ leakedIntervals = {}
    /\ fetches = 0
    /\ progressInterval = [cur |-> FALSE, old |-> 0]
    /\ minTimeouts = <<>>
    /\ doneTimeouts = <<>>
    /\ polling = FALSE
    /\ clock = 0

\* The timers of earlier runs of the loading effect: their closures name the
\* progressInterval of a run that has been superseded.
Supersede(q) == [i \in 1..Len(q) |-> [q[i] EXCEPT !.cur = FALSE]]

\* The cleanup of the loading effect: clearInterval(progressInterval).
EffectCleanup(intervals) == [intervals EXCEPT !.cur = FALSE]

\* A run of the loading effect has room in the model's bounds.
CanRunLoadingEffect(f, mins) == f < MaxFetches /\ Len(mins) < MaxTimeouts

\* One run of the useEffect on [dataLoaded, loadingProgress], after the cleanup
\* of the previous run: fetchEarthquakes(), a new progress interval, and a
\* 5000 ms timeout whose closure holds this render's dataLoaded.  f, mins and
\* dones are the fetches and timeouts left by the step that triggers it.
LoadingEffect(f, mins, dones, dl) ==
    /\ fetches' = f + 1
    /\ progressInterval' = [EffectCleanup(progressInterval) EXCEPT !.cur = TRUE]
    /\ minTimeouts' = Append(Supersede(mins), [dl |-> dl, cur |-> TRUE, at |-> clock])
    /\ doneTimeouts' = Supersede(dones)

\* Mount: every effect runs once.  The filter effect finds no earthquakes, the
\* loading effect starts the first fetch, and the date-range effect sets the
\* default dates, after which the filter effect runs again.
Mount ==
    /\ lifecycle = "init"
    /\ lifecycle' = "mounted"
    /\ filters' = SetFilter(SetFilter(filters, "startDate", getDefaultDateRange.start),
                            "endDate", getDefaultDateRange.end)
    /\ filteredEarthquakes' = FilterEffect(earthquakes, filters', filteredEarthquakes)
    /\ LoadingEffect(fetches, minTimeouts, doneTimeouts, dataLoaded)
    /\ UNCHANGED <<earthquakes, loadVars, animVars, polling, clock, proxyVars>>

Min(a, b) == IF a < b THEN a ELSE b

\* Math.random() * 3 + 1, a number in [1, 4): the whole percents it may add.
ProgressIncrements == {1, 2, 3}

ProgressCap == 95

\* The progress interval fires: setLoadingProgress(prev => Math.min(prev + inc, 95)).
\* A changed loadingProgress re-runs the loading effect.
ProgressTick(inc) ==
    /\ lifecycle = "mounted"
    /\ progressInterval.cur \/ progressInterval.old > 0
    /\ loadingProgress' = Min(loadingProgress + inc, ProgressCap)
    /\ IF loadingProgress' # loadingProgress
       THEN /\ CanRunLoadingEffect(fetches, minTimeouts)
            /\ LoadingEffect(fetches, minTimeouts, doneTimeouts, dataLoaded)
       ELSE UNCHANGED <<fetches, progressInterval, minTimeouts, doneTimeouts>>
    /\ UNCHANGED <<lifecycle, dataVars, loading, error, dataLoaded, animVars, polling,
                   clock, proxyVars>>

MinDelay == 5000
DoneDelay == 300

\* if (dataLoaded) in the callback of the 5000 ms timeout t: the dataLoaded of
\* the render whose effect armed it.
SeesDataLoadedAlways(t) == TRUE

SeesDataLoaded(t) == t.dl

\* The oldest 5000 ms timeout fires.  With dataLoaded true in its closure it sets
\* the progress to 100 and arms the 300 ms timeout; otherwise it calls
\* checkCompletion, whose closure holds dataLoaded = false for ever, so that it
\* only re-arms itself.  After unmount the state setters do nothing.
MinTimeoutFires ==
    /\ minTimeouts # <<>>
    /\ LET t == Head(minTimeouts)
           rest == Tail(minTimeouts)
           dones == IF SeesDataLoaded(t) THEN Append(doneTimeouts, [cur |-> t.cur]) ELSE doneTimeouts
       IN  /\ Len(dones) <= MaxTimeouts
           /\ polling' = (polling \/ ~SeesDataLoaded(t))
           /\ loadingProgress' =
                  IF SeesDataLoaded(t) /\ lifecycle = "mounted" THEN 100 ELSE loadingProgress
           /\ IF loadingProgress' # loadingProgress
              THEN /\ fetches < MaxFetches
                   /\ LoadingEffect(fetches, rest, dones, dataLoaded)
              ELSE /\ minTimeouts' = rest
                   /\ doneTimeouts' = dones
                   /\ UNCHANGED <<fetches, progressInterval>>
    /\ UNCHANGED <<lifecycle, dataVars, loading, error, dataLoaded, animVars, clock,
                   proxyVars>>

\* The oldest 300 ms timeout fires: setLoading(false) and
\* clearInterval(progressInterval) of the effect run that armed it.
DoneTimeoutFires ==
    /\ doneTimeouts # <<>>
    /\ loading' = IF lifecycle = "mounted" THEN FALSE ELSE loading
    /\ progressInterval' =
           IF Head(doneTimeouts).cur THEN EffectCleanup(progressInterval)
           ELSE progressInterval
    /\ doneTimeouts' = Tail(doneTimeouts)
    /\ UNCHANGED <<lifecycle, dataVars, loadingProgress, error, dataLoaded, animVars,
                   fetches, minTimeouts, polling, clock, proxyVars>>

\* A fetch settles and fetchEarthquakes runs to its end.  New earthquakes re-run
\* the filter effect; a changed dataLoaded re-runs the loading effect.
FetchResolves(o) ==
    /\ fetches > 0
    /\ LET res == fetchEarthquakes(o)
           on == lifecycle = "mounted"
       IN  /\ earthquakes' =
                  IF on /\ res.earthquakes # Null THEN res.earthquakes[1] ELSE earthquakes
           /\ filteredEarthquakes' =
                  IF on /\ res.earthquakes # Null
                  THEN FilterEffect(earthquakes', filters, filteredEarthquakes)
                  ELSE filteredEarthquakes
           /\ error' = IF on /\ res.error # Null THEN res.error ELSE error
           /\ dataLoaded' =
                  IF on /\ res.dataLoaded # Null THEN res.dataLoaded[1] ELSE dataLoaded
           /\ IF dataLoaded' # dataLoaded
              THEN /\ Len(minTimeouts) < MaxTimeouts
                   /\ LoadingEffect(fetches - 1, minTimeouts, doneTimeouts, dataLoaded')
              ELSE /\ fetches' = fetches - 1
                   /\ UNCHANGED <<progressInterval, minTimeouts, doneTimeouts>>
    /\ UNCHANGED <<lifecycle, filters, loading, loadingProgress, animVars, polling,
                   clock, proxyVars>>

\* The views the component renders.
LoadingView == lifecycle = "mounted" /\ loading
\* An error view that gives way to the globe once event data is installed.
ErrorViewUnlessData ==
    lifecycle = "mounted" /\ ~loading /\ error # Null /\ earthquakes = <<>>

ErrorView == lifecycle = "mounted" /\ ~loading /\ error # Null
MainView == lifecycle = "mounted" /\ ~loading /\ error = Null

\* The Retry button of the error view: onClick={fetchEarthquakes}.
Retry ==
    /\ ErrorView
    /\ fetches < MaxFetches
    /\ fetches' = fetches + 1
    /\ UNCHANGED <<lifecycle, dataVars, loadVars, animVars, progressInterval,
                   minTimeouts, doneTimeouts, polling, clock, proxyVars>>

\* setFilters(next), then the filter effect.
SetFilters(next) ==
    /\ MainView
    /\ filters' = next
    /\ filteredEarthquakes' = FilterEffect(earthquakes, filters', filteredEarthquakes)
    /\ UNCHANGED <<lifecycle, earthquakes, loadVars, animVars, timerVars, proxyVars>>

\* Handle filter changes: a slider, a date input, the region select, the search box.
handleFilterChange(key, value) == SetFilters(SetFilter(filters, key, value))

\* The quick filters.
QuickMajor == SetFilters(SetFilter(filters, "minMagnitude", 60))
QuickLast24h == SetFilters(SetFilter(filters, "startDate", ISODate(DaysAgo(1))))
ResetAll == SetFilters(ResetFilters)

\* The tick of an animation interval whose closure saw a filtered list of
\* length len: setAnimationIndex(prev => ...), with setIsAnimating(false) at the end.
AnimateWrap(index, animating, len) ==
    IF index + 1 >= len
    THEN [index |-> 0, animating |-> FALSE]
    ELSE [index |-> index + 1, animating |-> animating]

\* The interval startAnimation creates, with the length its closure holds.
NewInterval(filtered) == [len |-> Len(filtered), live |-> TRUE]

\* clearInterval(animationRef.current)
ClearInterval(ref) == [ref EXCEPT !.live = FALSE]

\* startAnimation without its early return and without the disabled attribute
\* of the button.
startAnimationUnguarded ==
    /\ MainView
    /\ ~isAnimating
    /\ isAnimating' = TRUE
    /\ animationIndex' = 0
    /\ animationRef' = NewInterval(filteredEarthquakes)
    /\ leakedIntervals' =
           IF animationRef.live THEN leakedIntervals \cup {animationRef.len}
           ELSE leakedIntervals
    /\ UNCHANGED <<lifecycle, dataVars, loadVars, timerVars, proxyVars>>

\* The Animate button: onClick={isAnimating ? stopAnimation : startAnimation},
\* disabled while the filtered list is empty.
startAnimation ==
    /\ MainView
    /\ ~isAnimating
    /\ Len(filteredEarthquakes) # 0
    /\ isAnimating' = TRUE
    /\ animationIndex' = 0
    /\ animationRef' = NewInterval(filteredEarthquakes)
    /\ leakedIntervals' =
           IF animationRef.live THEN leakedIntervals \cup {animationRef.len}
           ELSE leakedIntervals
    /\ UNCHANGED <<lifecycle, dataVars, loadVars, timerVars, proxyVars>>

stopAnimation ==
    /\ MainView
    /\ isAnimating
    /\ isAnimating' = FALSE
    /\ animationRef' = ClearInterval(animationRef)
    /\ animationIndex' = 0
    /\ UNCHANGED <<leakedIntervals, lifecycle, dataVars, loadVars, timerVars, proxyVars>>

\* The closure lengths of the animation intervals that are live.
LiveIntervals ==
    (IF animationRef.live THEN {animationRef.len} ELSE {}) \cup leakedIntervals

\* An animation interval fires.
AnimationTick(len) ==
    /\ lifecycle = "mounted"
    /\ len \in LiveIntervals
    /\ LET next == AnimateWrap(animationIndex, isAnimating, len)
       IN  /\ animationIndex' = next.index
           /\ isAnimating' = next.animating
    /\ UNCHANGED <<animationRef, leakedIntervals, lifecycle, dataVars, loadVars,
                   timerVars, proxyVars>>

\* Teardown: the cleanups of the loading effect and of the animation effect.
Unmount ==
    /\ lifecycle = "mounted"
    /\ lifecycle' = "unmounted"
    /\ progressInterval' = EffectCleanup(progressInterval)
    /\ animationRef' = ClearInterval(animationRef)
    /\ UNCHANGED <<dataVars, loadVars, isAnimating, animationIndex, leakedIntervals,
                   fetches, minTimeouts, doneTimeouts, polling, clock, proxyVars>>

\* What the user enters in the filter panel.
FilterInputs == {<<"endDate", "">>, <<"searchTerm", Fiji>>}

\* The fetch outcomes of the loading specification: one of every kind.
LoadOutcomes ==
    {o \in ClientOutcomes :
        \/ ~("earthquakes" \in DOMAIN o.data)
        \/ o.data.earthquakes \in {<<>>, <<ProcessFeature(FTokyo)>>}}

\* Loading and fetching: the effects, the timers and the fetches, with no user
\* at the filter panel or the Animate button.
LoadNext ==
    \/ Mount
    \/ \E inc \in ProgressIncrements : ProgressTick(inc)
    \/ MinTimeoutFires
    \/ DoneTimeoutFires
    \/ \E o \in LoadOutcomes : FetchResolves(o)
    \/ Retry
    \/ Unmount

\* The main view: the filter panel, the Animate button and its intervals, and
\* the fetches and timeouts that lead to it and keep replacing the data.
ViewNext ==
    \/ Mount
    \/ MinTimeoutFires
    \/ DoneTimeoutFires
    \/ \E o \in ClientOutcomes : FetchResolves(o)
    \/ \E in \in FilterInputs : handleFilterChange(in[1], in[2])
    \/ startAnimation
    \/ stopAnimation
    \/ \E len \in 1..MaxFeatures : AnimationTick(len)

\* The lists the client may hold: the well-formed upstream lists, through the
\* proxy and fetchEarthquakes.
EnrichedLists ==
    {[i \in 1..Len(l) |-> Enrich(ProcessFeature(l[i]))] :
        l \in {m \in ListsOver(WellFormedFeatures, MaxFeatures) : Distinct(m)}}

\* Everything the user enters in the filter panel: the two sliders, the two
\* date inputs, the region select and the search box.
JapanUpper == <<"J", "A", "P", "A", "N">>
JapanLower == <<"j", "a", "p", "a", "n">>
AllFilterInputs ==
    ({"minMagnitude"} \X {10, 60})
    \cup ({"maxMagnitude"} \X {60})
    \cup ({"startDate"} \X {"", "2024-03-30"})
    \cup ({"endDate"} \X {"", "2024-03-15"})
    \cup ({"region"} \X Regions)
    \cup ({"searchTerm"} \X {<<>>, JapanLower, JapanUpper})

\* The main view over one of the fetched lists, with default filters, every
\* timer spent and this many fetches in flight.
MainViewInit(lists, pending) ==
    /\ ProxyInit
    /\ lifecycle = "mounted"
    /\ earthquakes \in lists
    /\ filters = ResetFilters
    /\ filteredEarthquakes = FilterEffect(earthquakes, filters, <<>>)
    /\ loading = FALSE
    /\ loadingProgress = 100
    /\ error = Null
    /\ dataLoaded = TRUE
    /\ isAnimating = FALSE
    /\ animationIndex = 0
    /\ animationRef = [len |-> 0, live |-> FALSE]
    /\ leakedIntervals = {}
    /\ fetches = pending
    /\ progressInterval = [cur |-> FALSE, old |-> 0]
    /\ minTimeouts = <<>>
    /\ doneTimeouts = <<>>
    /\ polling = TRUE
    /\ clock = 0

\* The filter panel alone: the main view over any fetched list, and the user at
\* the filter panel.
FilterInit == MainViewInit(EnrichedLists, 0)

FilterNext ==
    \/ \E in \in AllFilterInputs : handleFilterChange(in[1], in[2])
    \/ QuickMajor
    \/ QuickLast24h
    \/ ResetAll

\* Probe events for the functions of one event: a feature at a point of the
\* coordinate grid with a magnitude, dated yesterday at noon.
Probe(id, lng, lat, depth, place, mag) ==
    Feature(id, Point(lng, lat, depth),
        Some([mag |-> mag, place |-> place, time |-> Some(Now - HoursPerDay - 1),
              title |-> "M - probe", url |-> "https://usgs/probe",
              tsunami |-> 0, type |-> "earthquake", status |-> "automatic",
              updated |-> Now]))

\* Longitudes and latitudes at and around the bounds of the regions, in tenths
\* of a degree.
GridLngs ==
    {-1800, -1001, -1000, -999, -601, -600, -599, -301, -300, -299, 0, 199, 200, 201,
     599, 600, 601, 1000, 1199, 1200, 1201, 1800}
GridLats == {-900, -601, -600, -501, -500, 0, 700, 701}

\* Magnitudes at and around the breakpoints of the color buckets, in tenths.
GridMagnitudes ==
    {Null} \cup {Some(m) : m \in {0, 9, 10, 11, 39, 40, 41, 49, 50, 59, 60, 62, 69, 70, 71, 100}}

\* The upstream lists of the probes: one event at every grid point, two events
\* of one longitude at every two latitudes, and every pair of magnitudes at two
\* different places and depths.
ProbeLists ==
    {<<Probe("p1", lng, lat, 10, Tokyo, Some(50))>> : lng \in GridLngs, lat \in GridLats}
    \cup {<<Probe("p1", lng, pair[1], 10, Tokyo, Some(50)),
            Probe("p2", lng, pair[2], 10, Tokyo, Some(50))>> :
              lng \in GridLngs,
              pair \in {p \in GridLats \X GridLats : p[1] < p[2]}}
    \cup {<<Probe("p1", 1397, 357, 10, Tokyo, m), Probe("p2", -1182, 340, 550, LosAngeles, n)>> :
              m \in GridMagnitudes, n \in GridMagnitudes}

\* What the fetch settles with when the upstream answers with a probe list.
ProbeOutcomes ==
    {[reject |-> FALSE, status |-> 200, json |-> TRUE,
      data |-> SuccessResponse([features |-> Some(l), metadata |-> Null]).body] :
        l \in ProbeLists}

\* The main view with a fetch in flight that answers with a probe list, and
\* the region select.
DeriveInit == MainViewInit({<<>>}, 1)

DeriveNext ==
    \/ \E o \in ProbeOutcomes : FetchResolves(o)
    \/ \E region \in Regions : handleFilterChange("region", region)

\* Whole seconds of a delay in milliseconds.
Seconds(ms) == ms \div 1000

\* A second passes since the mount.
ClockTick ==
    /\ lifecycle # "init"
    /\ clock < MaxClock
    /\ clock' = clock + 1
    /\ UNCHANGED <<proxyVars, lifecycle, dataVars, loadVars, animVars, fetches,
                   progressInterval, minTimeouts, doneTimeouts, polling>>

\* The oldest 5000 ms timeout is due: setTimeout never runs its callback early.
MinTimeoutDue ==
    /\ minTimeouts # <<>>
    /\ clock >= Head(minTimeouts).at + Seconds(MinDelay)

\* Loading and fetching with the time that passes: a timeout fires no earlier
\* than its delay after it was armed.
TimedNext ==
    \/ Mount
    \/ \E inc \in ProgressIncrements : ProgressTick(inc)
    \/ MinTimeoutDue /\ MinTimeoutFires
    \/ DoneTimeoutFires
    \/ \E o \in LoadOutcomes : FetchResolves(o)
    \/ Retry
    \/ Unmount
    \/ ClockTick

\* The Animate button, its intervals and the teardown, in the main view.
AnimNext ==
    \/ startAnimation
    \/ stopAnimation
    \/ \E len \in 1..MaxFeatures : AnimationTick(len)
    \/ \E in \in FilterInputs : handleFilterChange(in[1], in[2])
    \/ Unmount

Init == ProxyInit /\ ClientInit
ProxySpec == Init /\ [][ProxyNext]_vars
LoadSpec == Init /\ [][LoadNext]_vars
FilterSpec == FilterInit /\ [][FilterNext]_vars
TimedSpec == Init /\ [][TimedNext]_vars
DeriveSpec == DeriveInit /\ [][DeriveNext]_vars
AnimSpec == FilterInit /\ [][AnimNext]_vars
Spec == Init /\ [][ViewNext]_vars

\* Every timer callback runs once it is due, and every fetch settles.
FairLoadSpec ==
    /\ LoadSpec
    /\ WF_vars(\E inc \in ProgressIncrements : ProgressTick(inc))
    /\ WF_vars(MinTimeoutFires)
    /\ WF_vars(DoneTimeoutFires)
    /\ WF_vars(\E o \in LoadOutcomes : FetchResolves(o))

\* Every live animation interval keeps firing: setInterval(animate, 100).
FairAnimSpec ==
    /\ AnimSpec
    /\ \A len \in 1..MaxFeatures : WF_vars(AnimationTick(len))

\* ----------------------------------------------------------------- claims
\* Two letters that differ at most in case.
SameLetter(c, d) ==
    \/ c = d
    \/ \E i \in 1..Len(UpperCase) :
          {c, d} = {UpperCase[i], LowerCase[i]}

\* term occurs in text, letter case ignored.
MatchesIgnoringCase(text, term) ==
    \E off \in 0..(Len(text) - Len(term)) :
        \A i \in 1..Len(term) : SameLetter(text[off + i], term[i])

\* The five predicates of the filter contract.
PassesContract(eq, f) ==
    /\ eq.magnitude # Null
    /\ f.minMagnitude <= eq.magnitude[1]
    /\ eq.magnitude[1] <= f.maxMagnitude
    /\ f.startDate # "" => eq.time[1] >= ParseDate(f.startDate)
    /\ f.endDate # "" => eq.time[1] <= ParseDate(f.endDate)
    /\ isInRegion(eq, f.region)
    /\ f.searchTerm # <<>> => MatchesIgnoringCase(eq.place, f.searchTerm)

\* result holds exactly the elements of source that pass, in source order.
IsSelection(result, source, f) ==
    LET keep == {i \in 1..Len(source) : PassesContract(source[i], f)}
    IN  /\ Len(result) = Cardinality(keep)
        /\ \A i \in keep : result[Cardinality({j \in keep : j <= i})] = source[i]

\* C1: for every fetched list and every FilterState the filtered list is the
\* subsequence of the source list, in source order, of the events that pass the
\* five predicates (magnitude range, start date, end date, region rule,
\* case-insensitive search of place).
C1_FilteredIsSelection == IsSelection(filteredEarthquakes, earthquakes, filters)

\* C1's case: a search term in capitals keeps Tokyo and drops a later element.
C1_Witness ==
    /\ Len(earthquakes) = 2
    /\ filters.searchTerm = JapanUpper
    /\ filters.endDate = ""
    /\ Len(filteredEarthquakes) = 1
    /\ filteredEarthquakes[1] = earthquakes[2]

\* C2: after any change of the source list or of a filter field has been
\* processed, the filtered list is the filter applied to the current source
\* list and the current FilterState.
C2_NeverStale == filteredEarthquakes = applyFilters(earthquakes, filters)

\* C3: the animation index is at most the length of the current filtered list.
C3_IndexWithinFiltered == animationIndex <= Len(filteredEarthquakes)

\* C4: whenever the animation is stopped its index is 0.
C4_StoppedAtZero == ~isAnimating => animationIndex = 0

\* The points handed to the globe.
displayEarthquakes ==
    displayEarthquakesFor(isAnimating, filteredEarthquakes, animationIndex)

\* C5: the rendered points are the prefix of length animationIndex of the
\* filtered list while the animation runs, and the whole filtered list otherwise.
C5_RenderedPrefix ==
    IF isAnimating
    THEN /\ Len(displayEarthquakes) = animationIndex
         /\ \A i \in 1..Len(displayEarthquakes) :
                displayEarthquakes[i] = filteredEarthquakes[i]
    ELSE displayEarthquakes = filteredEarthquakes

\* The handler step on the wire is the one that ended request handling with
\* the parsed body of a successful upstream response that has a feature list.
BodyWithFeatures ==
    /\ wire.kind = "body"
    /\ wire.body.json
    /\ wire.body.data.features # Null

\* The record of the response corresponds to the feature: coordinates 0, 1, 2
\* and the nine properties.
RecordOfFeature(e, f) ==
    /\ e.lng = f.geometry[1].coordinates[1]
    /\ e.lat = f.geometry[1].coordinates[2]
    /\ e.depth = f.geometry[1].coordinates[3]
    /\ e.magnitude = f.properties[1].mag
    /\ e.place = f.properties[1].place
    /\ e.time = f.properties[1].time
    /\ e.title = f.properties[1].title
    /\ e.url = f.properties[1].url
    /\ e.tsunami = f.properties[1].tsunami
    /\ e.type = f.properties[1].type
    /\ e.status = f.properties[1].status
    /\ e.updated = f.properties[1].updated

\* The response is a 200 with one record per feature, in feature order, and a
\* count equal to the length of the list.
OneRecordPerFeature(out, features) ==
    /\ Len(out) = 1
    /\ out[1].status = 200
    /\ Len(out[1].body.earthquakes) = Len(features)
    /\ out[1].body.count = Len(out[1].body.earthquakes)
    /\ \A i \in 1..Len(features) : RecordOfFeature(out[1].body.earthquakes[i], features[i])

AllWellFormed(features) ==
    \A i \in 1..Len(features) :
        /\ features[i].geometry # Null
        /\ features[i].properties # Null
        /\ features[i].properties[1].time # Null

IsFailure(response) ==
    /\ response.status = 500
    /\ DOMAIN response.body = {"error", "details"}

\* C7: an unreachable upstream or a non-success status fails the request with
\* one 500 response that carries error and details and neither earthquakes
\* nor count.
C7_UpstreamFailureIs500 ==
    (wire.kind = "head" /\ (wire.head.neterr \/ wire.head.status \notin 200..299))
        => (Len(wire.out) = 1 /\ IsFailure(wire.out[1]))

C7_Witness ==
    /\ wire.kind = "head"
    /\ wire.head.status = 503
    /\ Len(wire.out) = 1
    /\ requests[wire.r].sent = <<500>>

\* C8: a successful upstream response without a feature list is answered with
\* a 200 whose count is 0 and whose earthquakes list is empty.
C8_NoFeatureListIsEmpty ==
    (wire.kind = "body" /\ wire.body.json /\ wire.body.data.features = Null)
        => /\ Len(wire.out) = 1
           /\ wire.out[1].status = 200
           /\ wire.out[1].body.count = 0
           /\ wire.out[1].body.earthquakes = <<>>

C8_Witness ==
    /\ wire.kind = "body"
    /\ wire.body.json
    /\ wire.body.data.features = Null
    /\ requests[wire.r].sent = <<200>>

NoDataFromFailure == [][error' # error => earthquakes' = earthquakes]_vars

\* The error state a failed fetch leaves: the message of the catch block.
FetchFailed == error # Null /\ error[1] # InvalidData

\* C10: a failed fetch (network error or non-success status) installs no event
\* data and sets the error, and from then on the loading screen is eventually
\* dismissed and the error view with the Retry button displayed, unless the
\* component is torn down first.
C10_ErrorViewShown ==
    /\ NoDataFromFailure
    /\ (FetchFailed ~> (ErrorView \/ lifecycle = "unmounted"))

C10_Witness == ErrorView /\ FetchFailed /\ earthquakes = <<>>

\* C11: the number of fetches in flight grows only on mount, or on a click on
\* Retry (a step of the error view that changes nothing else): no timer tick
\* and no change of loadingProgress or dataLoaded issues a fetch.
C11_FetchOnlyOnMountOrRetry ==
    [][fetches' > fetches =>
          \/ lifecycle = "init"
          \/ /\ ErrorView
             /\ UNCHANGED <<loadVars, progressInterval, minTimeouts, doneTimeouts>>]_vars

\* The animation intervals and the progress-bar intervals that are live.
LiveAnimationIntervals ==
    (IF animationRef.live THEN 1 ELSE 0) + Cardinality(leakedIntervals)
LiveProgressIntervals ==
    (IF progressInterval.cur THEN 1 ELSE 0) + progressInterval.old

\* C12: in every reachable state at most one animation interval and at most
\* one progress-bar interval is live; a superseded interval is never left
\* ticking.
C12_AtMostOneInterval ==
    /\ LiveAnimationIntervals <= 1
    /\ LiveProgressIntervals <= 1

\* C13: after teardown no animation interval and no progress-bar interval of
\* the component is live, whatever starts, stops and completions came before.
C13_NoTimerAfterUnmount ==
    lifecycle = "unmounted" =>
        /\ LiveAnimationIntervals = 0
        /\ LiveProgressIntervals = 0

\* C14: while the animation runs, the displayed events are in order of
\* non-decreasing event time, and no event is revealed before an event of the
\* filtered list that occurred earlier.
C14_RevealedChronologically ==
    isAnimating =>
        /\ \A i \in 1..Len(displayEarthquakes), j \in 1..Len(displayEarthquakes) :
               i < j => displayEarthquakes[i].time[1] <= displayEarthquakes[j].time[1]
        /\ \A i \in 1..Len(displayEarthquakes),
              j \in (Len(displayEarthquakes) + 1)..Len(filteredEarthquakes) :
               displayEarthquakes[i].time[1] <= filteredEarthquakes[j].time[1]

\* C15: loading is false only when at least 5 seconds have passed since the
\* mount and the fetch has completed (dataLoaded is true).
C15_LoadingGate == ~loading => (clock >= Seconds(MinDelay) /\ dataLoaded)

\* C15's case: the loading screen goes in the fifth second after the mount.
C15_Witness == lifecycle = "mounted" /\ ~loading /\ clock = Seconds(MinDelay)

\* The values the upstream URL carries for a parameter, by position.
ParamValues(url, name) == {i \in 1..Len(url) : url[i][1] = name}

\* The URL carries the parameter exactly once, with this value.
HasParam(url, name, value) ==
    /\ Cardinality(ParamValues(url, name)) = 1
    /\ \A i \in ParamValues(url, name) : url[i][2] = value

\* The URL carries the inbound value of the parameter, or else the default.
ForwardedOr(url, query, name, default) ==
    HasParam(url, name, IF query[name] = Null THEN default ELSE query[name][1])

\* Today minus 30 days, as YYYY-MM-DD.
ThirtyDaysAgo == ISODate(Now - 30 * HoursPerDay)

\* C16 as stated: minmagnitude, limit, format and starttime are forwarded when
\* present and defaulted (4.5, 1000, geojson, today minus 30 days) when absent,
\* and endtime is forwarded when present and omitted when absent.
C16_Original ==
    wire.kind = "get" =>
        /\ ForwardedOr(wire.url, wire.query, "minmagnitude", "4.5")
        /\ ForwardedOr(wire.url, wire.query, "limit", "1000")
        /\ ForwardedOr(wire.url, wire.query, "format", "geojson")
        /\ ForwardedOr(wire.url, wire.query, "starttime", ThirtyDaysAgo)
        /\ IF wire.query.endtime = Null
           THEN ParamValues(wire.url, "endtime") = {}
           ELSE HasParam(wire.url, "endtime", wire.query.endtime[1])

\* The parameter is absent from the inbound query, or present with no value.
AbsentOrEmpty(o) == o = Null \/ o[1] = ""

\* C16, amended: minmagnitude, limit and format are forwarded when present and
\* defaulted (4.5, 1000, geojson) when absent; starttime is forwarded when it
\* is present and not empty, and is today minus 30 days otherwise; endtime is
\* forwarded when it is present and not empty, and omitted otherwise.
C16_QueryDefaults ==
    wire.kind = "get" =>
        /\ ForwardedOr(wire.url, wire.query, "minmagnitude", "4.5")
        /\ ForwardedOr(wire.url, wire.query, "limit", "1000")
        /\ ForwardedOr(wire.url, wire.query, "format", "geojson")
        /\ HasParam(wire.url, "starttime",
                    IF AbsentOrEmpty(wire.query.starttime) THEN ThirtyDaysAgo
                    ELSE wire.query.starttime[1])
        /\ IF AbsentOrEmpty(wire.query.endtime)
           THEN ParamValues(wire.url, "endtime") = {}
           ELSE HasParam(wire.url, "endtime", wire.query.endtime[1])

\* C16's case: a query that gives a limit and an end time and nothing else.
C16_Witness ==
    /\ wire.kind = "get"
    /\ wire.query.limit = Some("50")
    /\ wire.query.endtime = Some("2024-03-30")
    /\ wire.query.starttime = Null
    /\ HasParam(wire.url, "starttime", "2024-03-01")
    /\ HasParam(wire.url, "limit", "50")

\* The orderby value with which the upstream (the FDSN event service of the
\* USGS) orders by ascending origin time; "time" orders by descending time.
TimeAscending == "time-asc"

\* C17: for every inbound query the upstream query asks for the results in
\* ascending order of time, oldest event first.
C17_OrderedAscending ==
    wire.kind = "get" => HasParam(wire.url, "orderby", TimeAscending)

\* The FilterState that the mount and 'Reset All' leave.
IsDefaultFilterState(f) ==
    /\ f.minMagnitude = 45
    /\ f.maxMagnitude = 100
    /\ f.region = "all"
    /\ f.searchTerm = <<>>
    /\ f.startDate = getDefaultDateRange.start
    /\ f.endDate = getDefaultDateRange.end

\* The event lies in the last 30 days, up to the present moment.
InLast30Days(eq) ==
    /\ eq.time[1] >= Now - 30 * HoursPerDay
    /\ eq.time[1] <= Now

\* C18: under the default FilterState, which the mount and 'Reset All' leave,
\* every fetched event with a magnitude in [4.5, 10.0] and a time in the last
\* 30 days up to the present moment is in the filtered list.
C18_DefaultAdmitsLast30Days ==
    (lifecycle = "mounted" /\ IsDefaultFilterState(filters)) =>
        \A i \in 1..Len(earthquakes) :
            (/\ earthquakes[i].magnitude # Null
             /\ earthquakes[i].magnitude[1] >= 45
             /\ earthquakes[i].magnitude[1] <= 100
             /\ InLast30Days(earthquakes[i]))
            => \E j \in 1..Len(filteredEarthquakes) :
                   filteredEarthquakes[j] = earthquakes[i]

\* The declared interval of a region, in tenths of a degree; the pacific ring
\* is the two bands next to the 180th meridian.
InDeclaredInterval(region, lng, lat) ==
    CASE region = "americas" -> -1800 <= lng /\ lng <= -300
      [] region = "asia-pacific" -> 600 <= lng /\ lng <= 1800 /\ -500 <= lat /\ lat <= 700
      [] region = "europe-africa" -> -300 <= lng /\ lng <= 600
      [] region = "atlantic" -> -600 <= lng /\ lng <= 200 /\ -600 <= lat /\ lat <= 700
      [] region = "pacific-ring" -> (1200 <= lng /\ lng <= 1800) \/ (-1800 <= lng /\ lng <= -1000)

\* The event is in the filtered list.
IsFiltered(eq) == \E j \in 1..Len(filteredEarthquakes) : filteredEarthquakes[j] = eq

\* C19: with the other four predicates passing, the region 'all' keeps every
\* event, and each of the five other regions keeps an event exactly when its
\* coordinates lie in the declared interval of the region ('americas' exactly
\* when -180 <= lng <= -30), so that every point outside it is rejected.
C19_RegionIntervals ==
    \A i \in 1..Len(earthquakes) :
        LET eq == earthquakes[i]
        IN  (eq.magnitude = Some(50) /\ filters = [ResetFilters EXCEPT !.region = filters.region])
            => IF filters.region = "all" THEN IsFiltered(eq)
               ELSE IsFiltered(eq) <=> InDeclaredInterval(filters.region, eq.lng, eq.lat)

\* C19's case: lng = 100, lat = 0 fails 'americas'.
C19_Witness ==
    /\ filters.region = "americas"
    /\ Len(earthquakes) = 1
    /\ earthquakes[1].lng = 1000
    /\ earthquakes[1].lat = 0
    /\ filteredEarthquakes = <<>>

\* The five color buckets, from the lowest to the highest.
BucketColors == <<"#90ee90", "#ffd700", "#ff8c00", "#ff4500", "#ff0000">>

\* The bucket of a magnitude in tenths: 1 below 4, up to 5 from 7 on.
Bucket(m) ==
    1 + Cardinality({b \in {40, 50, 60, 70} : m >= b})

\* The rank of a color among the buckets.
ColorRank(color) == CHOOSE k \in 1..Len(BucketColors) : BucketColors[k] = color

\* The number a magnitude counts as: null counts as 0.
MagnitudeNumber(magnitude) == IF magnitude = Null THEN 0 ELSE magnitude[1]

\* C20: the color of every event is the color of the bucket of its magnitude
\* and its size is max(0.15, magnitude * 0.15), in thousandths; two events with
\* the same magnitude have the same color and size whatever else differs, and
\* a larger magnitude never has a lower bucket or a smaller size.
C20_ColorAndSize ==
    /\ \A i \in 1..Len(earthquakes) :
           LET m == MagnitudeNumber(earthquakes[i].magnitude)
           IN  /\ earthquakes[i].color = BucketColors[Bucket(m)]
               /\ earthquakes[i].size = (IF m * 15 >= 150 THEN m * 15 ELSE 150)
    /\ \A i \in 1..Len(earthquakes), j \in 1..Len(earthquakes) :
           MagnitudeNumber(earthquakes[i].magnitude) <= MagnitudeNumber(earthquakes[j].magnitude)
           => /\ ColorRank(earthquakes[i].color) <= ColorRank(earthquakes[j].color)
              /\ earthquakes[i].size <= earthquakes[j].size

\* C20's case: magnitude 6.2 gives '#ff4500' and size 0.93, next to an event
\* of magnitude 7.0 at another place.
C20_Witness ==
    /\ Len(earthquakes) = 2
    /\ earthquakes[1].magnitude = Some(62)
    /\ earthquakes[1].color = "#ff4500"
    /\ earthquakes[1].size = 930
    /\ earthquakes[2].magnitude = Some(70)
    /\ earthquakes[2].color = "#ff0000"

\* A step that takes the animation to Running, or that creates an interval.
StartsAnimation ==
    \/ ~isAnimating /\ isAnimating'
    \/ animationRef' # animationRef /\ animationRef'.live

\* C21: the animation is started only from Stopped and only on a non-empty
\* filtered list, and the start leads to Running with index 0 and an interval
\* over that list; on an empty filtered list no step takes the state to
\* Running and no step creates an interval.
C21_StartOnlyFromStoppedNonEmpty ==
    [][StartsAnimation =>
         /\ ~isAnimating
         /\ Len(filteredEarthquakes) # 0
         /\ isAnimating'
         /\ animationIndex' = 0
         /\ animationRef' = NewInterval(filteredEarthquakes)]_vars

\* A restart: the animation runs at index 0 on a non-empty filtered list while
\* the interval of an earlier run is still live.
C21_Witness ==
    /\ isAnimating
    /\ animationIndex = 0
    /\ animationRef.live
    /\ animationRef.len = Len(filteredEarthquakes)
    /\ leakedIntervals # {}

\* A tick while the animation runs: the index or the running flag changes and
\* the interval of the run is neither replaced nor cleared.
RunningTick ==
    /\ isAnimating
    /\ animationRef' = animationRef
    /\ <<animationIndex, isAnimating>>' # <<animationIndex, isAnimating>>

\* C22: while the animation runs, a tick either advances the index by exactly 1
\* or, having reached the end of the filtered list the run was started on,
\* takes the state to Stopped with index 0; and with the intervals firing
\* fairly a running animation eventually is Stopped with index 0.
C22_RunsToTheEnd ==
    /\ [][RunningTick =>
            IF isAnimating'
            THEN animationIndex' = animationIndex + 1
            ELSE /\ animationIndex' = 0
                 /\ animationIndex + 1 >= animationRef.len]_vars
    /\ isAnimating ~>
           \/ ~isAnimating /\ animationIndex = 0
           \/ lifecycle = "unmounted"

\* fetchEarthquakes has completed: it recorded data, or an error.
FetchCompleted == dataLoaded \/ error # Null

\* C23: once a fetch has completed, with data, with a thrown failure or with a
\* body that has no earthquakes array, the loading screen is eventually
\* dismissed (while the component stays mounted).
C23_LoadingDismissed ==
    FetchCompleted ~> (~loading \/ lifecycle = "unmounted")

\* C24: an error, once set, is never cleared, and once the error view is shown
\* it is shown for as long as the component is mounted, whatever a later fetch
\* (a Retry that succeeds included) installs.
C24_ErrorAbsorbing ==
    /\ [][error # Null => error' # Null]_vars
    /\ [][ErrorView /\ lifecycle' = "mounted" => ErrorView']_vars

\* The error view is shown over installed event data.
C24_Witness ==
    /\ ErrorView
    /\ dataLoaded
    /\ earthquakes # <<>>

\* The number of features of the upstream body the handler step read, 0 when
\* it read no feature list.
UpstreamFeatureCount ==
    IF BodyWithFeatures THEN Len(wire.body.data.features[1]) ELSE 0

\* The upstream body has a feature without geometry or without properties.
HasBrokenFeature ==
    /\ BodyWithFeatures
    /\ \E i \in 1..Len(wire.body.data.features[1]) :
           LET f == wire.body.data.features[1][i]
           IN  f.geometry = Null \/ f.properties = Null

\* C25: every response of the proxy is either a 200 whose earthquakes list has
\* as many records as the upstream body has features, or a 500 with error and
\* details and no earthquakes list; an upstream body with a feature that lacks
\* geometry or properties is answered with the 500.
C25_AllOrNothing ==
    /\ \A i \in 1..Len(wire.out) :
           \/ IsFailure(wire.out[i])
           \/ /\ wire.out[i].status = 200
              /\ wire.kind = "body"
              /\ Len(wire.out[i].body.earthquakes) = UpstreamFeatureCount
              /\ wire.out[i].body.count = UpstreamFeatureCount
    /\ HasBrokenFeature => (Len(wire.out) = 1 /\ IsFailure(wire.out[1]))

\* A well-formed feature next to one without geometry or properties: the
\* request is answered 500.
C25_Witness ==
    /\ HasBrokenFeature
    /\ \E i \in 1..Len(wire.body.data.features[1]) :
           wire.body.data.features[1][i] \in WellFormedFeatures
    /\ requests[wire.r].sent = <<500>>

\* C26: under the region 'pacific-ring', with the other four predicates
\* passing and the longitude within [-180, 180], an event is kept exactly when
\* lng >= 120 or lng <= -100, and two events of one longitude are kept or
\* rejected together whatever their latitudes.
C26_RingIgnoresLatitude ==
    filters = [ResetFilters EXCEPT !.region = "pacific-ring"] =>
        \A i \in 1..Len(earthquakes) :
            LET eq == earthquakes[i]
            IN  (eq.magnitude = Some(50) /\ -1800 <= eq.lng /\ eq.lng <= 1800) =>
                    /\ IsFiltered(eq) <=> (eq.lng >= 1200 \/ eq.lng <= -1000)
                    /\ \A j \in 1..Len(earthquakes) :
                           (earthquakes[j].magnitude = Some(50)
                                /\ earthquakes[j].lng = eq.lng)
                               => (IsFiltered(eq) <=> IsFiltered(earthquakes[j]))

\* Two events of the ring at one longitude, one inside and one outside the
\* latitude band of the third sub-condition, both kept.
C26_Witness ==
    /\ filters.region = "pacific-ring"
    /\ Len(earthquakes) = 2
    /\ earthquakes[1].lng = 1200
    /\ earthquakes[2].lng = 1200
    /\ earthquakes[1].lat = -900
    /\ earthquakes[2].lat = 0
    /\ Len(filteredEarthquakes) = 2
====
